---- MODULE Spec2Model ----
(***************************************************************************)
(* Model of apps/assets/api/asset.py: the Asset REST views.                *)
(*                                                                         *)
(*   AssetViewSet.get_queryset        filtering by five query parameters   *)
(*   UserAssetListView.get_queryset   the assets granted to a user         *)
(*   AssetRefreshHardwareApi.retrieve hardware refresh action              *)
(*   AssetAdminUserTestApi.retrieve   connectivity test action             *)
(*                                                                         *)
(* A queryset is modelled by the rows the database returns for it: a       *)
(* function from asset id to the number of rows carrying that asset (a     *)
(* join over a multi-valued relation yields one row per matching related   *)
(* record).  Strings that the code takes apart (node keys) are sequences   *)
(* of one-character strings.                                               *)
(***************************************************************************)
EXTENDS Integers, Sequences, FiniteSets, TLC

VARIABLES
    asset_cluster,      \* Asset.cluster      : asset id -> cluster id
    asset_groups,       \* Asset.groups       : asset id -> set of group ids
    asset_admin_user,   \* Asset.admin_user   : asset id -> admin user id or None
    asset_nodes,        \* Asset.nodes        : asset id -> set of node ids
    pc,                 \* where the request in hand is: idle, retrieve, done
    request,            \* the request in hand
    response,           \* the response produced for it
    called              \* calls made to imported operations while serving it

vars == <<asset_cluster, asset_groups, asset_admin_user, asset_nodes,
          pc, request, response, called>>

db == <<asset_cluster, asset_groups, asset_admin_user, asset_nodes>>

----------------------------------------------------------------------------
(* Bounds of the exploration *)

\* an asset is attached to at most this many nodes
MaxNodesPerAsset == 2
\* get_user_granted_assets yields at most this many entries
MaxGranted == 2
\* at most this many hosts are reported dark in a summary
MaxDark == 2

----------------------------------------------------------------------------
(* Python values *)

\* Python's None: the value of query_params.get for an absent key, of a null
\* foreign key and of dict.get for a missing key
None == "<None>"

\* truth value of an optional string, as tested by "if cluster_id:"
Truthy(v) == v # None /\ v # ""

\* decimal digits
DigitChar == <<"0", "1", "2", "3", "4", "5", "6", "7", "8", "9">>

\* str(n) for a natural number, as a sequence of characters
RECURSIVE Str(_)
Str(n) ==
    IF n < 10 THEN <<DigitChar[n + 1]>>
    ELSE Str(n \div 10) \o <<DigitChar[(n % 10) + 1]>>

\* s.startswith(p), the test behind the __startswith lookup
startswith(s, p) ==
    /\ Len(p) <= Len(s)
    /\ \A i \in 1..Len(p) : s[i] = p[i]

----------------------------------------------------------------------------
(* The tables of the database *)

\* the Asset table: the asset "web" takes every combination of relations,
\* the asset "db" is a fixed second row
Assets == {"web", "db"}
Probe == "web"

Clusters == {"c1", "c2"}
Groups == {"g1", "g2"}
AdminUsers == {"au1"}
SystemUsers == {"su1"}
Nodes == {"n_root", "n_1", "n_10", "n_1_0"}

\* Cluster.admin_user, the foreign key behind admin_user.cluster_set
cluster_admin_user == [c \in Clusters |-> IF c = "c1" THEN "au1" ELSE None]

\* SystemUser.cluster, the relation behind system_user.get_clusters()
system_user_cluster == [s \in SystemUsers |-> {"c1"}]

\* the node tree: parent and index below the parent
node_parent ==
    [n \in Nodes |->
        CASE n = "n_root" -> None
          [] n = "n_1"    -> "n_root"
          [] n = "n_10"   -> "n_root"
          [] n = "n_1_0"  -> "n_1"]

node_index ==
    [n \in Nodes |->
        CASE n = "n_root" -> 0
          [] n = "n_1"    -> 1
          [] n = "n_10"   -> 10
          [] n = "n_1_0"  -> 0]

\* the key of a node: the parent's key, a separator, the node's own index
RECURSIVE KeyOf(_)
KeyOf(n) ==
    IF node_parent[n] = None THEN Str(node_index[n])
    ELSE KeyOf(node_parent[n]) \o <<":">> \o Str(node_index[n])

\* Node.key, the stored column
node_key == [n \in Nodes |-> KeyOf(n)]

\* n is sel or one of its descendants in the node tree
RECURSIVE InSubtree(_, _)
InSubtree(n, sel) ==
    \/ n = sel
    \/ node_parent[n] # None /\ InSubtree(node_parent[n], sel)

----------------------------------------------------------------------------
(* Querysets *)

\* Asset.objects.all(): one row per asset
all_assets == [a \in Assets |-> 1]

\* the empty queryset
no_rows == [a \in Assets |-> 0]

\* queryset.filter(...): match[a] is the number of rows the lookup's join
\* yields for asset a (0 or 1 for a lookup on the asset's own columns)
filter(qs, match) == [a \in Assets |-> qs[a] * match[a]]

\* the assets that have a row in a queryset
AssetsOf(qs) == {a \in Assets : qs[a] > 0}

\* what a view method ends with: a queryset, or Http404 raised
Found(qs) == [status |-> 200, rows |-> qs]
Http404 == [status |-> 404, rows |-> no_rows]

\* get_object_or_404(Model, id=id) on one of the tables
exists_or_404(table, id) == id \in table

\* request.query_params.get(name)
query_params_get(params, name) ==
    IF name \in DOMAIN params THEN params[name] ELSE None

----------------------------------------------------------------------------
(* AssetViewSet.get_queryset *)

\* queryset.filter(cluster__id=cluster_id)
filter_cluster_id(qs, cluster_id) ==
    Found(filter(qs, [a \in Assets |->
        IF asset_cluster[a] = cluster_id THEN 1 ELSE 0]))

\* mutant: the filter is put on a fresh Asset.objects queryset
filter_asset_group_id_Fresh(qs, asset_group_id) ==
    Found(filter(all_assets, [a \in Assets |->
        Cardinality({g \in asset_groups[a] : g = asset_group_id})]))

\* queryset.filter(groups__id=asset_group_id)
filter_asset_group_id(qs, asset_group_id) ==
    Found(filter(qs, [a \in Assets |->
        Cardinality({g \in asset_groups[a] : g = asset_group_id})]))

\* mutant: the two Q objects are joined by & instead of |
filter_admin_user_id_And(qs, admin_user_id) ==
    IF ~exists_or_404(AdminUsers, admin_user_id) THEN Http404
    ELSE LET admin_user == admin_user_id
             assets_direct == {a \in Assets : asset_admin_user[a] = admin_user}
             clusters == {c \in Clusters : cluster_admin_user[c] = admin_user}
         IN  Found(filter(qs, [a \in Assets |->
                 IF asset_cluster[a] \in clusters /\ a \in assets_direct
                 THEN 1 ELSE 0]))

\* the admin_user_id branch
filter_admin_user_id(qs, admin_user_id) ==
    IF ~exists_or_404(AdminUsers, admin_user_id) THEN Http404
    ELSE LET admin_user == admin_user_id
             assets_direct == {a \in Assets : asset_admin_user[a] = admin_user}
             clusters == {c \in Clusters : cluster_admin_user[c] = admin_user}
         IN  Found(filter(qs, [a \in Assets |->
                 IF asset_cluster[a] \in clusters \/ a \in assets_direct
                 THEN 1 ELSE 0]))

\* mutant: the filter is put on a fresh Asset.objects queryset
filter_system_user_id_Fresh(qs, system_user_id) ==
    IF ~exists_or_404(SystemUsers, system_user_id) THEN Http404
    ELSE LET clusters == system_user_cluster[system_user_id]
         IN  Found(filter(all_assets, [a \in Assets |->
                 IF asset_cluster[a] \in clusters THEN 1 ELSE 0]))

\* the system_user_id branch
filter_system_user_id(qs, system_user_id) ==
    IF ~exists_or_404(SystemUsers, system_user_id) THEN Http404
    ELSE LET clusters == system_user_cluster[system_user_id]
         IN  Found(filter(qs, [a \in Assets |->
                 IF asset_cluster[a] \in clusters THEN 1 ELSE 0]))

\* mutant: the node is looked up with filter(), which raises nothing
filter_node_id_NoRaise(qs, node_id) ==
    IF ~exists_or_404(Nodes, node_id) THEN Found(no_rows)
    ELSE LET key == node_key[node_id]
         IN  Found(filter(qs, [a \in Assets |->
                 Cardinality({n \in asset_nodes[a] :
                                 startswith(node_key[n], key)})]))

\* the node_id branch
filter_node_id(qs, node_id) ==
    IF ~exists_or_404(Nodes, node_id) THEN Http404
    ELSE LET key == node_key[node_id]
         IN  Found(filter(qs, [a \in Assets |->
                 Cardinality({n \in asset_nodes[a] :
                                 startswith(node_key[n], key)})]))

\* the five query parameters, in the order the code tests them
FilterOrder ==
    <<"cluster_id", "asset_group_id", "admin_user_id", "system_user_id",
      "node_id">>

\* one "if <param>: ..." block of get_queryset
apply_filter(name, qs, params) ==
    LET v == query_params_get(params, name)
    IN  IF ~Truthy(v) THEN Found(qs)
        ELSE CASE name = "cluster_id"     -> filter_cluster_id(qs, v)
               [] name = "asset_group_id" -> filter_asset_group_id(qs, v)
               [] name = "admin_user_id"  -> filter_admin_user_id(qs, v)
               [] name = "system_user_id" -> filter_system_user_id(qs, v)
               [] name = "node_id"        -> filter_node_id(qs, v)

\* the blocks run in the given order from block i on; an Http404 ends the run
RECURSIVE run_filters(_, _, _, _)
run_filters(order, i, qs, params) ==
    IF i > Len(order) THEN Found(qs)
    ELSE LET r == apply_filter(order[i], qs, params)
         IN  IF r.status = 404 THEN Http404
             ELSE run_filters(order, i + 1, r.rows, params)

\* AssetViewSet.get_queryset for a request with the given query parameters
get_queryset(params) == run_filters(FilterOrder, 1, all_assets, params)

----------------------------------------------------------------------------
(* Requests *)

\* values a client sends for each parameter: absent, empty, ids of records
\* that exist and an id of no record
ClusterIdInputs == {None, "", "c1", "c0"}
GroupIdInputs == {None, "", "g1", "g0"}
AdminUserIdInputs == {None, "", "au1", "au0"}
SystemUserIdInputs == {None, "", "su1", "su0"}
NodeIdInputs == {None, "", "n_1", "n_1_0", "n0"}

ParamInputs ==
    [cluster_id |-> ClusterIdInputs, asset_group_id |-> GroupIdInputs,
     admin_user_id |-> AdminUserIdInputs, system_user_id |-> SystemUserIdInputs,
     node_id |-> NodeIdInputs]

ParamNames == DOMAIN ParamInputs

\* the query string: a parameter given as None is not part of it
QueryParams(c, g, au, su, n) ==
    LET given == [cluster_id |-> c, asset_group_id |-> g, admin_user_id |-> au,
                  system_user_id |-> su, node_id |-> n]
    IN  [k \in {x \in ParamNames : given[x] # None} |-> given[k]]

\* the users: their is_superuser flag, and whether IsValidUser accepts them
Users == {"admin", "alice", "anonymous"}
is_superuser == [u \in Users |-> u = "admin"]
is_valid == [u \in Users |-> u # "anonymous"]

\* the permission classes named by the views
IsValidUser(user) == is_valid[user]
IsSuperUser(user) == IsValidUser(user) /\ is_superuser[user]

\* primary keys a client asks for: the assets and the key of no asset
PkInputs == Assets \cup {"a0"}

\* the sequences over S of length at most n
SeqsUpTo(S, n) == UNION {[1..k -> S] : k \in 0..n}

Range(f) == {f[x] : x \in DOMAIN f}

NoRequest == [view |-> None]
NoResponse == [status |-> 0]

\* the sets of at most n elements of S
SubsetsUpTo(S, n) == {x \in SUBSET S : Cardinality(x) <= n}

Init ==
    /\ \E c \in Clusters, gs \in SUBSET Groups,
          au \in AdminUsers \cup {None},
          ns \in SubsetsUpTo(Nodes, MaxNodesPerAsset) :
          /\ asset_cluster = [a \in Assets |-> IF a = Probe THEN c ELSE "c1"]
          /\ asset_groups = [a \in Assets |-> IF a = Probe THEN gs ELSE {"g2"}]
          /\ asset_admin_user = [a \in Assets |-> IF a = Probe THEN au ELSE None]
          /\ asset_nodes = [a \in Assets |-> IF a = Probe THEN ns ELSE {"n_10"}]
    /\ pc = "idle"
    /\ request = NoRequest
    /\ response = NoResponse
    /\ called = <<>>

\* GET on AssetViewSet: the list is built from get_queryset
AssetViewSet_get_queryset ==
    /\ pc = "idle"
    /\ \E c \in ClusterIdInputs, g \in GroupIdInputs, au \in AdminUserIdInputs,
          su \in SystemUserIdInputs, n \in NodeIdInputs :
          LET params == QueryParams(c, g, au, su, n)
              r == get_queryset(params)
          IN  /\ request' = [view |-> "AssetViewSet", query_params |-> params]
              /\ response' = r
    /\ pc' = "done"
    /\ UNCHANGED <<db, called>>

----------------------------------------------------------------------------
(* UserAssetListView.get_queryset *)

\* query strings sent to the user's list: none, and one that selects rows in
\* AssetViewSet
UserViewParams ==
    {QueryParams(None, None, None, None, None),
     QueryParams("c1", None, None, None, None),
     QueryParams(None, "g1", "au1", None, "n_1")}

\* mutant: the class queryset is returned without the id filter
user_queryset_Unfiltered(assets_granted) == Found(all_assets)

\* self.queryset.filter(id__in=[asset.id for asset in assets_granted])
user_queryset(assets_granted) ==
    LET ids == Range(assets_granted)
    IN  Found(filter(all_assets, [a \in Assets |-> IF a \in ids THEN 1 ELSE 0]))

\* GET on UserAssetListView by a user IsValidUser accepts; the value
\* get_user_granted_assets returns is any list of assets
UserAssetListView_get_queryset ==
    /\ pc = "idle"
    /\ \E user \in {u \in Users : IsValidUser(u)}, params \in UserViewParams,
          assets_granted \in SeqsUpTo(Assets, MaxGranted) :
          /\ request' = [view |-> "UserAssetListView", user |-> user,
                         query_params |-> params]
          /\ called' = <<[fn |-> "get_user_granted_assets", arg |-> user,
                          ret |-> assets_granted]>>
          /\ response' = user_queryset(assets_granted)
    /\ pc' = "done"
    /\ UNCHANGED db

----------------------------------------------------------------------------
(* The two action endpoints *)

RetrieveViews == {"AssetRefreshHardwareApi", "AssetAdminUserTestApi"}

\* the request reaches a view whose permission_classes is (IsSuperUser,): the
\* permission check runs before the handler
RetrieveAPIView_dispatch ==
    /\ pc = "idle"
    /\ \E view \in RetrieveViews, user \in Users, pk \in PkInputs :
          /\ request' = [view |-> view, user |-> user, pk |-> pk]
          /\ IF IsSuperUser(user)
             THEN pc' = "retrieve" /\ response' = NoResponse
             ELSE pc' = "done" /\ response' = [status |-> 403]
    /\ called' = <<>>
    /\ UNCHANGED db

\* dict.get(key) is truthy: the key is there and its value is a non-empty dict
dict_get_truthy(d, key) == key \in DOMAIN d /\ DOMAIN d[key] # {}

\* dict.values(): the values with the number of keys carrying each
dict_values(d) ==
    [v \in Range(d) |-> Cardinality({k \in DOMAIN d : d[k] = v})]

\* the summaries update_asset_hardware_info_manual may return
DarkMsgs == {"unreachable", "timeout"}
DarkHosts == {"web", "db", "gw"}
DarkMaps == UNION {[hs -> DarkMsgs] : hs \in SubsetsUpTo(DarkHosts, MaxDark)}
Summaries ==
    {[k \in {"contacted"} |-> <<>>]}
        \cup {[contacted |-> <<>>, dark |-> d] : d \in DarkMaps}

\* mutant: the test is "'dark' in summary"
refresh_response_KeyOnly(summary) ==
    IF "dark" \in DOMAIN summary
    THEN [status |-> 501, body |-> dict_values(summary["dark"])]
    ELSE [status |-> 200, body |-> [msg |-> "ok"]]

\* the response AssetRefreshHardwareApi.retrieve builds from the summary
refresh_response(summary) ==
    IF dict_get_truthy(summary, "dark")
    THEN [status |-> 501, body |-> dict_values(summary["dark"])]
    ELSE [status |-> 200, body |-> [msg |-> "ok"]]

\* mutant: the task is started before the asset is looked up
AssetRefreshHardwareApi_retrieve_CallFirst ==
    /\ pc = "retrieve"
    /\ request.view = "AssetRefreshHardwareApi"
    /\ \E summary \in Summaries :
          /\ called' = Append(called,
                [fn |-> "update_asset_hardware_info_manual",
                 arg |-> request.pk, ret |-> summary])
          /\ IF ~exists_or_404(Assets, request.pk)
             THEN response' = [status |-> 404]
             ELSE response' = refresh_response(summary)
    /\ pc' = "done"
    /\ UNCHANGED <<db, request>>

\* AssetRefreshHardwareApi.retrieve
AssetRefreshHardwareApi_retrieve ==
    /\ pc = "retrieve"
    /\ request.view = "AssetRefreshHardwareApi"
    /\ IF ~exists_or_404(Assets, request.pk)
       THEN response' = [status |-> 404] /\ called' = called
       ELSE \E summary \in Summaries :
               /\ called' = Append(called,
                     [fn |-> "update_asset_hardware_info_manual",
                      arg |-> request.pk, ret |-> summary])
               /\ response' = refresh_response(summary)
    /\ pc' = "done"
    /\ UNCHANGED <<db, request>>

\* the (ok, msg) pairs test_asset_connectability_manual may return
TestMsgs == {"", "timeout", "refused"}

\* mutant: the error body carries a fixed text instead of msg
test_response_FixedMsg(ok, msg) ==
    IF ok THEN [status |-> 200, body |-> [msg |-> "pong"]]
    ELSE [status |-> 502, body |-> [error |-> "error"]]

\* the response AssetAdminUserTestApi.retrieve builds from (ok, msg)
test_response(ok, msg) ==
    IF ok THEN [status |-> 200, body |-> [msg |-> "pong"]]
    ELSE [status |-> 502, body |-> [error |-> msg]]

\* AssetAdminUserTestApi.retrieve
AssetAdminUserTestApi_retrieve ==
    /\ pc = "retrieve"
    /\ request.view = "AssetAdminUserTestApi"
    /\ IF ~exists_or_404(Assets, request.pk)
       THEN response' = [status |-> 404] /\ called' = called
       ELSE \E ok \in BOOLEAN, msg \in TestMsgs :
               /\ called' = Append(called,
                     [fn |-> "test_asset_connectability_manual",
                      arg |-> request.pk, ret |-> <<ok, msg>>])
               /\ response' = test_response(ok, msg)
    /\ pc' = "done"
    /\ UNCHANGED <<db, request>>

\* the response is sent; the next request can be taken
Finish ==
    /\ pc = "done"
    /\ pc' = "idle"
    /\ request' = NoRequest
    /\ response' = NoResponse
    /\ called' = <<>>
    /\ UNCHANGED db

Next ==
    \/ AssetViewSet_get_queryset
    \/ UserAssetListView_get_queryset
    \/ RetrieveAPIView_dispatch
    \/ AssetRefreshHardwareApi_retrieve
    \/ AssetAdminUserTestApi_retrieve
    \/ Finish

Spec == Init /\ [][Next]_vars

----------------------------------------------------------------------------
(* Properties of AssetViewSet.get_queryset *)

\* a request to AssetViewSet has been answered
ListDone == pc = "done" /\ request.view = "AssetViewSet"

\* the value of a query parameter of the request in hand
Param(name) == query_params_get(request.query_params, name)

\* the assets listed in the response (none when the request failed)
Listed == AssetsOf(response.rows)

\* the condition a parameter's value puts on an asset, read off the tables
Satisfies(a, name, v) ==
    CASE name = "cluster_id"     -> asset_cluster[a] = v
      [] name = "asset_group_id" -> v \in asset_groups[a]
      [] name = "admin_user_id"  ->
            /\ v \in AdminUsers
            /\ \/ cluster_admin_user[asset_cluster[a]] = v
               \/ asset_admin_user[a] = v
      [] name = "system_user_id" ->
            /\ v \in SystemUsers
            /\ asset_cluster[a] \in system_user_cluster[v]
      [] name = "node_id"        ->
            /\ v \in Nodes
            /\ \E n \in asset_nodes[a] : startswith(node_key[n], node_key[v])

\* C1: an asset is listed if and only if it satisfies the condition of every
\* query parameter that is present and non-empty; an absent or empty parameter
\* restricts nothing, and without any parameter every asset is listed.
C1_Conjunction ==
    ListDone =>
        /\ \A a \in Assets :
              a \in Listed <=>
                 \A k \in ParamNames :
                    Truthy(Param(k)) => Satisfies(a, k, Param(k))
        /\ (\A k \in ParamNames : ~Truthy(Param(k))) => Listed = Assets

\* all five parameters are given, one asset passes them all and one does not
C1_Witness ==
    /\ ListDone
    /\ \A k \in ParamNames : Truthy(Param(k))
    /\ response.status = 200
    /\ Listed = {Probe}

\* C2: with node_id the listed assets are those attached to the selected node
\* or to one of its descendants; an asset attached only to nodes outside the
\* selected subtree is never listed.
C2_Hierarchical ==
    (ListDone /\ response.status = 200 /\ Truthy(Param("node_id"))) =>
        /\ \A a \in Listed :
              \E n \in asset_nodes[a] : InSubtree(n, Param("node_id"))
        /\ (\A k \in ParamNames \ {"node_id"} : ~Truthy(Param(k))) =>
              Listed = {a \in Assets :
                          \E n \in asset_nodes[a] :
                             InSubtree(n, Param("node_id"))}

\* the query parameters without one of them
Without(params, name) == [k \in DOMAIN params \ {name} |-> params[k]]

\* the query parameters with one of them set
With(params, name, v) ==
    [k \in DOMAIN params \cup {name} |-> IF k = name THEN v ELSE params[k]]

\* C3: with admin_user_id naming an admin user, the listed assets are those of
\* the other filters whose cluster belongs to that admin user or that are
\* assigned to that admin user directly.
C3_AdminUnion ==
    (ListDone /\ response.status = 200 /\ Truthy(Param("admin_user_id"))) =>
        LET au == Param("admin_user_id")
            others == get_queryset(Without(request.query_params, "admin_user_id"))
        IN  /\ au \in AdminUsers
            /\ Listed =
                 {a \in AssetsOf(others.rows) :
                     \/ cluster_admin_user[asset_cluster[a]] = au
                     \/ asset_admin_user[a] = au}

\* one asset is listed through its cluster only, the other through its direct
\* assignment only
C3_Witness ==
    /\ ListDone
    /\ response.status = 200
    /\ Param("admin_user_id") = "au1"
    /\ Listed = Assets
    /\ cluster_admin_user[asset_cluster[Probe]] # "au1"
    /\ asset_admin_user[Probe] = "au1"
    /\ asset_admin_user["db"] # "au1"

\* C7: an admin_user_id, system_user_id or node_id of no record ends the
\* request with 404 whatever the other parameters are; a cluster_id or
\* asset_group_id of no record raises nothing and lists no asset.
C7_NotFound ==
    ListDone =>
        LET missing ==
                \/ Truthy(Param("admin_user_id"))
                      /\ Param("admin_user_id") \notin AdminUsers
                \/ Truthy(Param("system_user_id"))
                      /\ Param("system_user_id") \notin SystemUsers
                \/ Truthy(Param("node_id")) /\ Param("node_id") \notin Nodes
            unknown ==
                \/ Truthy(Param("cluster_id"))
                      /\ Param("cluster_id") \notin Clusters
                \/ Truthy(Param("asset_group_id"))
                      /\ Param("asset_group_id") \notin Groups
        IN  /\ missing => response.status = 404
            /\ ~missing => response.status = 200
            /\ (~missing /\ unknown) => Listed = {}

\* the cluster filter has emptied the queryset and the node is still looked up
C7_Witness ==
    /\ ListDone
    /\ Param("cluster_id") = "c0"
    /\ Param("node_id") = "n0"
    /\ ~Truthy(Param("admin_user_id"))
    /\ ~Truthy(Param("system_user_id"))
    /\ response.status = 404

\* C9: every asset has at most one row in the list.
C9_NoDuplicates ==
    ListDone => \A a \in Assets : response.rows[a] <= 1

\* the orders in which the blocks of a request can run: a block whose
\* parameter is absent or empty does nothing wherever it stands, so an order
\* is an arrangement of the blocks whose parameter is given
Orders(params) ==
    LET given(k) == Truthy(query_params_get(params, k))
        base == SelectSeq(FilterOrder, given)
    IN  {[i \in DOMAIN base |-> p[base[i]]] : p \in Permutations(Range(base))}

\* C10: a request that is answered lists a subset of its assets when one more
\* non-empty parameter is added to it, and the outcome is the same in whatever
\* order the five blocks run.
C10_Narrowing ==
    ListDone =>
        /\ response.status = 200 =>
              \A k \in ParamNames : \A v \in ParamInputs[k] :
                 (~Truthy(Param(k)) /\ Truthy(v)) =>
                    LET more == get_queryset(With(request.query_params, k, v))
                    IN  more.status = 200 => AssetsOf(more.rows) \subseteq Listed
        /\ \A order \in Orders(request.query_params) :
              run_filters(order, 1, all_assets, request.query_params) = response

\* adding a parameter removes one of the two listed assets
C10_Witness ==
    /\ ListDone
    /\ response.status = 200
    /\ Listed = Assets
    /\ Truthy(Param("cluster_id"))
    /\ ~Truthy(Param("node_id"))
    /\ get_queryset(With(request.query_params, "node_id", "n_1_0")).status = 200
    /\ AssetsOf(get_queryset(With(request.query_params, "node_id", "n_1_0")).rows)
          = {Probe}

----------------------------------------------------------------------------
(* Properties of UserAssetListView.get_queryset *)

\* a request to UserAssetListView has been answered
UserListDone == pc = "done" /\ request.view = "UserAssetListView"

\* C6: the assets listed for a user are exactly those that
\* get_user_granted_assets returned for that user, one row each, whatever the
\* query string of the request is.
C6_GrantedOnly ==
    UserListDone =>
        /\ Len(called) = 1
        /\ called[1].fn = "get_user_granted_assets"
        /\ called[1].arg = request.user
        /\ response.status = 200
        /\ \A a \in Assets :
              /\ a \in Listed <=> \E i \in DOMAIN called[1].ret : called[1].ret[i] = a
              /\ response.rows[a] <= 1

\* a query string that selects both assets in AssetViewSet, one asset granted
C6_Witness ==
    /\ UserListDone
    /\ DOMAIN request.query_params # {}
    /\ AssetsOf(get_queryset(request.query_params).rows) = Assets
    /\ called[1].ret = <<"db", "db">>
    /\ Listed = {"db"}

----------------------------------------------------------------------------
(* Properties of the action endpoints *)

\* a request to an action endpoint has run its task
TaskRan(view) == pc = "done" /\ request.view = view /\ called # <<>>

\* C4: the hardware refresh answers 501 with the values of the summary's dark
\* mapping exactly when the summary has a non-empty dark entry, and 200 with
\* {"msg": "ok"} when the entry is missing or empty.
C4_RefreshStatus ==
    TaskRan("AssetRefreshHardwareApi") =>
        LET summary == called[1].ret
            dark == "dark" \in DOMAIN summary /\ DOMAIN summary["dark"] # {}
        IN  /\ response.status = 501 <=> dark
            /\ response.status = 501 =>
                  LET d == summary["dark"]
                  IN  /\ DOMAIN response.body = {d[h] : h \in DOMAIN d}
                      /\ \A m \in DOMAIN response.body :
                            response.body[m] =
                               Cardinality({h \in DOMAIN d : d[h] = m})
            /\ response.status # 501 =>
                  /\ response.status = 200
                  /\ response.body = [msg |-> "ok"]

\* two hosts are dark with the same message
C4_Witness ==
    /\ TaskRan("AssetRefreshHardwareApi")
    /\ response.status = 501
    /\ "dark" \in DOMAIN called[1].ret
    /\ DOMAIN called[1].ret["dark"] = {"web", "gw"}
    /\ response.body = [m \in {"timeout"} |-> 2]

\* C5: the connectivity test answers 200 with {"msg": "pong"} exactly when the
\* test reports ok, and otherwise 502 with {"error": msg}, msg being the
\* message the test returned.
C5_TestStatus ==
    TaskRan("AssetAdminUserTestApi") =>
        LET ok == called[1].ret[1]
            msg == called[1].ret[2]
        IN  /\ response.status = 200 <=> ok
            /\ response.status = 200 => response.body = [msg |-> "pong"]
            /\ response.status # 200 =>
                  /\ response.status = 502
                  /\ response.body = [error |-> msg]

\* the test failed with a message
C5_Witness ==
    /\ TaskRan("AssetAdminUserTestApi")
    /\ called[1].ret = <<FALSE, "refused">>
    /\ response = [status |-> 502, body |-> [error |-> "refused"]]

\* the task an action endpoint delegates to
TaskOf(view) ==
    IF view = "AssetRefreshHardwareApi"
    THEN "update_asset_hardware_info_manual"
    ELSE "test_asset_connectability_manual"

\* C8: an action endpoint calls its task only for a superuser and an existing
\* asset: a request that ends 403 or 404 has called nothing, no call is made
\* before the permission check has passed, and a request that finds its asset
\* has called its task exactly once, on that asset.
C8_CallAfterChecks ==
    request.view \in RetrieveViews =>
        /\ called # <<>> =>
              /\ pc = "done"
              /\ IsSuperUser(request.user)
              /\ request.pk \in Assets
        /\ pc = "retrieve" => IsSuperUser(request.user)
        /\ pc = "done" =>
              /\ ~IsSuperUser(request.user) => response.status = 403
              /\ (IsSuperUser(request.user) /\ request.pk \notin Assets) =>
                    response.status = 404
              /\ response.status \in {403, 404} => called = <<>>
              /\ (IsSuperUser(request.user) /\ request.pk \in Assets) =>
                    /\ response.status \notin {403, 404}
                    /\ Len(called) = 1
                    /\ called[1].fn = TaskOf(request.view)
                    /\ called[1].arg = request.pk

\* a superuser's request for an existing asset has run the hardware refresh
C8_Witness ==
    /\ TaskRan("AssetRefreshHardwareApi")
    /\ request.user = "admin"
    /\ request.pk = "db"
    /\ Len(called) = 1
    /\ called[1].arg = "db"
    /\ response.status = 200

====
